---- MODULE Spec2Model ----
(***************************************************************************)
(* A model of rd_collect.py: the rate-distortion sweep of one image        *)
(* (process_image and the two benchmarks it calls), the quality list it    *)
(* iterates over, the file names it builds, and the worker pool of main.   *)
(*                                                                         *)
(* External programs (identify, convert, ffmpeg, vmaf, butteraugli_main,   *)
(* dssim, ssimulacra_main and the recipe's encoder and decoder) are the    *)
(* environment: every invocation returns an exit status drawn from         *)
(* ExitCodes.  An invocation that exits 0 has done what the command line   *)
(* asks for (it wrote its output file, a non-empty one).                   *)
(*                                                                         *)
(* A write to an open result file is modelled as reaching the file in      *)
(* program order; CPython flushes the buffer when the file object is       *)
(* closed or released, which also happens on the way out of sys.exit.      *)
(***************************************************************************)
EXTENDS Integers, Sequences, FiniteSets, TLC

(***************************************************************************)
(* Bounds of the model.                                                    *)
(***************************************************************************)
\* process_image is run at most MaxRuns times on the same Job.
MaxRuns == 2
\* Process identifiers a run of process_image may get are 1..MaxPid.
MaxPid == 2

(***************************************************************************)
(* Program constants.                                                      *)
(***************************************************************************)
\* Mutant: the lossless commands are timed over one run less.
LosslessReps_one_less == 5 - 1

\* Timer(wrapped).timeit(5) in get_lossless_results.
LosslessReps == 5
\* Timer(wrapped).timeit(1) in get_lossy_results.
LossyReps == 1

\* Exit statuses of an external program: 0 is success.
ExitCodes == {0, 1}

\* The quality of a file that belongs to no quality point.
NoQ == 0 - 99

(***************************************************************************)
(* Python's range(start, end, step) for step # 0, as CPython computes it   *)
(* (compute_range_length): the length first, then the items                *)
(* start + k*step.  step = 0 raises ValueError and is handled by the       *)
(* caller.                                                                 *)
(***************************************************************************)
\* Mutant: the length of a range that holds its end.
range_len_inclusive(start, end, step) ==
    IF step > 0 /\ start <= end THEN 1 + ((end - start) \div step)
    ELSE IF step < 0 /\ start >= end THEN 1 + ((start - end) \div (0 - step))
    ELSE 0

range_len(start, end, step) ==
    IF step > 0 /\ start < end THEN 1 + ((end - 1 - start) \div step)
    ELSE IF step < 0 /\ start > end THEN 1 + ((start - 1 - end) \div (0 - step))
    ELSE 0

range(start, end, step) ==
    [k \in 1..range_len(start, end, step) |-> start + (k - 1) * step]

(***************************************************************************)
(* Binary floating point.  A Python float is an IEEE double: a mantissa    *)
(* of 53 bits and an exponent, every conversion and every operation        *)
(* rounded to the nearest such number, ties to the even mantissa.  The     *)
(* model keeps the format and the rounding with a mantissa of FloatBits    *)
(* bits.  A float is held as the integer count of units of 1 / One, One a  *)
(* power of two chosen so that every float from 1/16 up is a whole number  *)
(* of units.                                                               *)
(***************************************************************************)
\* the bits of the mantissa (53 in a double)
FloatBits == 5

RECURSIVE Pow2(_)
Pow2(k) == IF k = 0 THEN 1 ELSE 2 * Pow2(k - 1)

\* the float 1.0, in units
One == Pow2(FloatBits + 3)

CeilDiv(a, b) == IF b > 0 THEN 0 - ((0 - a) \div b) ELSE 0 - (a \div (0 - b))

\* the spacing of the floats around num / den >= 0: the smallest power of
\* two u with num / den < u * 2^FloatBits
RECURSIVE ulp(_, _, _)
ulp(num, den, u) ==
    IF num < u * Pow2(FloatBits) * den THEN u ELSE ulp(num, den, 2 * u)

\* num / d >= 0 to the nearest integer, ties to the even one
round_half_even(num, d) ==
    LET m == num \div d
        r == num % d
    IN  IF 2 * r > d \/ (2 * r = d /\ m % 2 = 1) THEN m + 1 ELSE m

\* the float nearest to num / den units (den > 0)
fl(num, den) ==
    LET a == IF num >= 0 THEN num ELSE 0 - num
        u == ulp(a, den, 1)
        v == u * round_half_even(a, den * u)
    IN  IF num >= 0 THEN v ELSE 0 - v

\* a + b, a - b, k * b (k an integer) and a / b on floats
fadd(a, b) == fl(a + b, 1)
fsub(a, b) == fl(a - b, 1)
fmul(k, b) == fl(k * b, 1)
fdiv(a, b) == IF b > 0 THEN fl(a * One, b) ELSE fl(0 - (a * One), 0 - b)

(***************************************************************************)
(* numpy.arange(start, end, step) on floats: the length is                 *)
(* ceil((end - start) / step), the first item is start, the second         *)
(* start + step, and item k is start + k * delta, where delta is the       *)
(* second item minus the first.  Every operation is a float operation.     *)
(* step = 0 raises and is handled by the caller.                           *)
(***************************************************************************)
arange_len(start, end, step) ==
    LET q == CeilDiv(fdiv(fsub(end, start), step), One)
    IN  IF q > 0 THEN q ELSE 0

arange(start, end, step) ==
    LET next == fadd(start, step)
        delta == fsub(next, start)
    IN  [k \in 1..arange_len(start, end, step) |->
            IF k = 1 THEN start
            ELSE IF k = 2 THEN next
            ELSE fadd(start, fmul(k - 1, delta))]

(***************************************************************************)
(* Recipes.  A recipe is the JSON object of one format: a function from    *)
(* the field names it has to their values.  A quality bound is a JSON      *)
(* number or string: kind "int" (n is the integer), "float" (n is the      *)
(* float, in units of 1 / One), "str" (a string int() and float() both     *)
(* parse, n its value) or "badstr" (a string neither parses).              *)
(***************************************************************************)
TextFields == {"encode_extension", "decode_extension", "encode_cmd",
               "decode_cmd", "lossless_cmd"}
QualityFields == {"quality_start", "quality_end", "quality_step"}

IntV(n) == [kind |-> "int", n |-> n]
\* json.load of a number written with a fraction: the float nearest to it.
\* FloatV(n) is n halves (0.5, 1.0, 1.5, ...), DecV(n) is n tenths.
FloatV(n) == [kind |-> "float", n |-> fl(n * One, 2)]
DecV(n) == [kind |-> "float", n |-> fl(n * One, 10)]
StrV(n) == [kind |-> "str", n |-> n]
BadStr == [kind |-> "badstr", n |-> 0]

\* isinstance(v, float)
isinstance_float(v) == v.kind = "float"
\* int(v) and float(v) raise ValueError on a string that is no number
raises_ValueError(v) == v.kind = "badstr"
\* int(v), for a value that is no float
to_int(v) == v.n
\* float(v)
to_float(v) == IF v.kind = "float" THEN v.n ELSE fl(v.n * One, 1)

MkRecipe(dext, s, e, st) ==
    [f \in TextFields \cup QualityFields |->
        CASE f = "decode_extension" -> dext
          [] f = "encode_extension" -> "enc"
          [] f = "quality_start" -> s
          [] f = "quality_end" -> e
          [] f = "quality_step" -> st
          [] OTHER -> "cmd"]

\* The recipe without one field.
Without(r, f) == [g \in DOMAIN r \ {f} |-> r[g]]
(***************************************************************************)
(* State.                                                                  *)
(***************************************************************************)
VARIABLES
    \* process_image on one Job -------------------------------------------
    format_recipe,  \* the recipe of the Job (args[1])
    hasAlpha,       \* whether identify reports "srgba" for the source image
    fs,             \* the files that exist: path -> sequence of lines
    fs0,            \* fs when the current run of process_image was entered
    pc,             \* the statement process_image is at ("idle": not running)
    status,         \* how the last run ended, "running" while it runs
    run,            \* how many times process_image was entered
    pid,            \* os.getpid() of the process running it
    isfloat,        \* local isfloat
    quality_list,   \* local quality_list
    i,              \* local i of the while loop
    rep,            \* repetitions Timer.timeit has executed so far
    calls,          \* external invocations of this run: [cmd, q, rv]
    \* the file names of two Jobs run side by side ------------------------
    w_pid,          \* worker -> os.getpid() of the worker process
    w_origpng,      \* worker -> origpng of the Job it runs, as characters
    w_dext,         \* decode_extension of the recipe, as characters
    w_at,           \* worker -> how far its Job is
    w_paths,        \* worker -> the paths its Job has written so far
    \* main and the pool -------------------------------------------------
    config_found,   \* whether recipes.json exists
    argv,           \* sys.argv: [n |-> len(argv), format |-> argv[1]]
    recipe,         \* data["recipes"][format] of the supported format
    images,         \* how many files glob finds: the Jobs are 1..images
    main_pc,        \* where main is: "start", "map", "returned", "raised"
    taskq,          \* the pool's task queue: chunks of Jobs not yet taken
    results,        \* chunk -> "none", "ok" or "exc": what the worker sent
    wk,             \* worker -> [state, chunk, rest, phase]
    job,            \* Job -> [state, runs, worker, invoked, lossless, lossy]
    failures,       \* external invocations that exited non-zero so far
    \* the numbers of a result row --------------------------------------
    orig_file_size, \* os.path.getsize(origpng)
    width,          \* what identify printed for %w
    height,         \* what identify printed for %h
    target_file_size, \* results[0]: os.path.getsize(target)
    row_pc,         \* "lossless" or "lossy": the row about to be written
    recorded        \* the row written last, or that none was written

jobVars == <<format_recipe, hasAlpha, fs, fs0, pc, status, run, pid, isfloat,
             quality_list, i, rep, calls>>

pathVars == <<w_pid, w_origpng, w_dext, w_at, w_paths>>

poolVars == <<config_found, argv, recipe, images, main_pc, taskq, results,
              wk, job, failures>>

rowVars == <<orig_file_size, width, height, target_file_size, row_pc,
             recorded>>

vars == <<jobVars, pathVars, poolVars, rowVars>>

\* What the steps of process_image on one Job leave alone.
otherVars == <<pathVars, poolVars, rowVars>>

(***************************************************************************)
(* Files.  A path is <<name, pid, quality>>: pid is 0 for a path that does  *)
(* not hold the process id, quality is NoQ for a path that holds none.     *)
(* One Job is modelled, so subset, format and image name are fixed.        *)
(***************************************************************************)
result_lossy == <<"results/lossy.out", 0, NoQ>>
result_lossless == <<"results/lossless.out", 0, NoQ>>
lossless_target == <<"OUT/lossless.enc", 0, NoQ>>
lossless_target_dec(p) == <<"tmp/lossless.dec", p, NoQ>>
origy4m(p) == <<"tmp/orig.y4m", p, NoQ>>
target(q) == <<"OUT/q.enc", 0, q>>
target_dec(p, q) == <<"tmp/q.dec", p, q>>
target_json(p, q) == <<"tmp/q.json", p, q>>
target_y4m(p, q) == <<"tmp/q.dec.y4m", p, q>>
\* lines 294-298: a file of its own unless the decoder writes png
target_png(p, q, dext) ==
    IF dext # "png" THEN <<"tmp/q.dec.png", p, q>> ELSE target_dec(p, q)

\* Paths built by path_for_file_in_tmp.
TmpNames == {"tmp/lossless.dec", "tmp/orig.y4m", "tmp/q.dec", "tmp/q.json",
             "tmp/q.dec.y4m", "tmp/q.dec.png"}
IsTmp(path) == path[1] \in TmpNames

Line(type, q) == [type |-> type, quality |-> q]
lossless_header == Line("lossless_header", NoQ)
lossy_header == Line("lossy_header", NoQ)
Data(tag) == <<Line(tag, NoQ)>>

Exists(f, path) == path \in DOMAIN f
\* open(path, "w") and a program writing its output: create or replace
Put(f, path, content) ==
    [x \in DOMAIN f \cup {path} |-> IF x = path THEN content ELSE f[x]]
\* file.write(line)
WriteLine(f, path, line) == [f EXCEPT ![path] = Append(@, line)]
Remove(f, path) == [x \in DOMAIN f \ {path} |-> f[x]]

\* try: os.remove(p1); os.remove(p2); ... except FileNotFoundError: pass
RECURSIVE RemoveAll(_, _)
RemoveAll(f, paths) ==
    IF paths = <<>> THEN f
    ELSE IF ~Exists(f, Head(paths)) THEN f
    ELSE RemoveAll(Remove(f, Head(paths)), Tail(paths))
(***************************************************************************)
(* process_image, statement by statement.  Every external invocation is a  *)
(* step of its own, since each of them may end the process.                *)
(***************************************************************************)
runConst == <<format_recipe, hasAlpha, fs0, run, pid, otherVars>>
locals == <<isfloat, quality_list, i, rep>>

\* quality = quality_list[i] (Python counts from 0)
quality == quality_list[i + 1]

decode_extension == format_recipe["decode_extension"]

\* Mutant: the status is ignored.
exits_never(rv) == FALSE

\* run_silent, lines 67-71: sys.exit(rv) on a non-zero status
run_silent_exits(rv) == rv # 0
\* the Popen callers (identify, vmaf, butteraugli_main, dssim,
\* ssimulacra_main): sys.exit(proc.returncode) on a non-zero status
returncode_exits(rv) == rv # 0

Invoke(cmd, q, rv) == calls' = Append(calls, [cmd |-> cmd, q |-> q, rv |-> rv])

\* sys.exit: the process ends where it is, nothing is cleaned up
sys_exit ==
    /\ pc' = "idle"
    /\ status' = "exited"
    /\ UNCHANGED <<fs, locals>>

\* An external program that exits 0 has written its output file.
Output(rv, path, content) == IF rv = 0 THEN Put(fs, path, content) ELSE fs

\* Mutant of the guard: none, every call runs the Job again.
already_done_never(f) == FALSE

\* Mutant of the guard: one that wants a data row.
already_done_needs_row(f) == Exists(f, result_lossy) /\ Len(f[result_lossy]) > 1

\* line 354: os.path.isfile(result_file) and not st_size == 0
already_done(f) == Exists(f, result_lossy) /\ Len(f[result_lossy]) # 0

\* Mutant: the reading of the recipe without the check of the text fields.
parse_outcome_no_field_check(r) ==
    IF ~(QualityFields \subseteq DOMAIN r) THEN "KeyError"
    ELSE IF \E f \in QualityFields : raises_ValueError(r[f]) THEN "ValueError"
    ELSE "ok"

\* lines 357-384: what the reading of the recipe ends in
parse_outcome(r) ==
    IF ~(QualityFields \subseteq DOMAIN r) THEN "KeyError"
    ELSE IF \E f \in QualityFields : raises_ValueError(r[f]) THEN "ValueError"
    ELSE IF ~(TextFields \subseteq DOMAIN r) THEN "missing_field"
    ELSE "ok"

\* lines 358-362
recipe_isfloat(r) == \E f \in QualityFields : isinstance_float(r[f])

\* lines 364-371: start, end, step as numbers
bound(r, f) == IF recipe_isfloat(r) THEN to_float(r[f]) ELSE to_int(r[f])

\* lines 449-452
make_quality_list(r) ==
    IF recipe_isfloat(r)
    THEN arange(bound(r, "quality_start"), bound(r, "quality_end"),
                bound(r, "quality_step"))
    ELSE range(bound(r, "quality_start"), bound(r, "quality_end"),
               bound(r, "quality_step"))

\* The call of process_image by the pool worker.
process_image_enter ==
    /\ pc = "idle"
    /\ run < MaxRuns
    /\ run' = run + 1
    /\ pid' \in 1..MaxPid
    /\ fs0' = fs
    /\ calls' = <<>>
    /\ status' = "running"
    /\ pc' = "guard"
    /\ isfloat' = FALSE /\ quality_list' = <<>> /\ i' = 0 /\ rep' = 0
    /\ UNCHANGED <<format_recipe, hasAlpha, fs, otherVars>>

\* lines 343-355
process_image_guard ==
    /\ pc = "guard"
    /\ IF already_done(fs)
       THEN pc' = "idle" /\ status' = "skipped"
       ELSE pc' = "parse" /\ UNCHANGED status
    /\ UNCHANGED <<fs, calls, runConst, locals>>

\* lines 357-384
process_image_parse ==
    /\ pc = "parse"
    /\ LET out == parse_outcome(format_recipe) IN
       CASE out = "KeyError" ->
              pc' = "idle" /\ status' = "raised" /\ UNCHANGED isfloat
         [] out \in {"ValueError", "missing_field"} ->
              pc' = "idle" /\ status' = "reported" /\ UNCHANGED isfloat
         [] OTHER ->
              /\ pc' = "get_img_width"
              /\ isfloat' = recipe_isfloat(format_recipe)
              /\ UNCHANGED status
    /\ UNCHANGED <<fs, calls, runConst, quality_list, i, rep>>

\* lines 95-105
get_img_width ==
    /\ pc = "get_img_width"
    /\ \E rv \in ExitCodes :
        /\ Invoke("identify_w", NoQ, rv)
        /\ IF returncode_exits(rv) THEN sys_exit
           ELSE pc' = "get_img_height" /\ UNCHANGED <<fs, status, locals>>
    /\ UNCHANGED runConst

\* lines 108-118
get_img_height ==
    /\ pc = "get_img_height"
    /\ \E rv \in ExitCodes :
        /\ Invoke("identify_h", NoQ, rv)
        /\ IF returncode_exits(rv) THEN sys_exit
           ELSE pc' = "open_lossless" /\ UNCHANGED <<fs, status, locals>>
    /\ UNCHANGED runConst

\* Mutant: open(path, "a"), which keeps what the file holds.
open_a(f, path) == IF Exists(f, path) THEN f ELSE Put(f, path, <<>>)

\* open(path, "w"): the file is created, or cut to nothing if it exists
open_w(f, path) == Put(f, path, <<>>)

\* lines 405-406
open_lossless ==
    /\ pc = "open_lossless"
    /\ fs' = open_w(fs, result_lossless)
    /\ pc' = "header_lossless"
    /\ UNCHANGED <<status, calls, runConst, locals>>

\* lines 408-410
header_lossless ==
    /\ pc = "header_lossless"
    /\ fs' = WriteLine(fs, result_lossless, lossless_header)
    /\ pc' = "lossless_encode"
    /\ rep' = 0
    /\ UNCHANGED <<status, calls, runConst, isfloat, quality_list, i>>

\* lines 238-241: one execution of lossless_cmd out of timeit(5)
lossless_encode ==
    /\ pc = "lossless_encode"
    /\ \E rv \in ExitCodes :
        /\ Invoke("lossless_cmd", NoQ, rv)
        /\ IF run_silent_exits(rv) THEN sys_exit
           ELSE /\ fs' = Output(rv, lossless_target, Data("lossless"))
                /\ IF rep + 1 < LosslessReps
                   THEN pc' = pc /\ rep' = rep + 1
                   ELSE pc' = "lossless_decode" /\ rep' = 0
                /\ UNCHANGED <<status, isfloat, quality_list, i>>
    /\ UNCHANGED runConst

\* lines 243-246: one execution of decode_cmd out of timeit(5)
lossless_decode ==
    /\ pc = "lossless_decode"
    /\ \E rv \in ExitCodes :
        /\ Invoke("lossless_decode_cmd", NoQ, rv)
        /\ IF run_silent_exits(rv) THEN sys_exit
           ELSE /\ fs' = Output(rv, lossless_target_dec(pid), Data("decoded"))
                /\ IF rep + 1 < LosslessReps
                   THEN pc' = pc /\ rep' = rep + 1
                   ELSE pc' = "lossless_row" /\ rep' = 0
                /\ UNCHANGED <<status, isfloat, quality_list, i>>
    /\ UNCHANGED runConst

\* lines 248-255 and 413-429: stat, remove the decoded file, write the row,
\* close
lossless_row ==
    /\ pc = "lossless_row"
    /\ fs' = WriteLine(RemoveAll(fs, <<lossless_target_dec(pid)>>),
                       result_lossless, Line("row", NoQ))
    /\ pc' = "open_lossy"
    /\ UNCHANGED <<status, calls, runConst, locals>>
\* lines 443-444
open_lossy ==
    /\ pc = "open_lossy"
    /\ fs' = open_w(fs, result_lossy)
    /\ pc' = "header_lossy"
    /\ UNCHANGED <<status, calls, runConst, locals>>

\* lines 446-448
header_lossy ==
    /\ pc = "header_lossy"
    /\ fs' = WriteLine(fs, result_lossy, lossy_header)
    /\ pc' = "quality_list"
    /\ UNCHANGED <<status, calls, runConst, locals>>

\* lines 449-454: range() and numpy.arange raise on a step of 0
build_quality_list ==
    /\ pc = "quality_list"
    /\ IF bound(format_recipe, "quality_step") = 0
       THEN pc' = "idle" /\ status' = "raised" /\ UNCHANGED <<quality_list, i>>
       ELSE /\ quality_list' = make_quality_list(format_recipe)
            /\ i' = 0
            /\ pc' = "while"
            /\ UNCHANGED status
    /\ UNCHANGED <<fs, calls, runConst, isfloat, rep>>

\* line 455, and lines 489-490 when the loop is over
while_test ==
    /\ pc = "while"
    /\ IF i < Len(quality_list)
       THEN pc' = "convertff_orig" /\ UNCHANGED status
       ELSE pc' = "idle" /\ status' = "returned"
    /\ UNCHANGED <<fs, calls, runConst, locals>>

\* get_lossy_results, lines 265-266: ffmpeg, source image -> origy4m
convertff_orig ==
    /\ pc = "convertff_orig"
    /\ \E rv \in ExitCodes :
        /\ Invoke("ffmpeg_orig", quality, rv)
        /\ IF run_silent_exits(rv) THEN sys_exit
           ELSE /\ fs' = Output(rv, origy4m(pid), Data("orig_y4m"))
                /\ pc' = "lossy_encode"
                /\ UNCHANGED <<status, locals>>
    /\ UNCHANGED runConst

\* lines 282-285: encode_cmd, timeit(1)
lossy_encode ==
    /\ pc = "lossy_encode"
    /\ \E rv \in ExitCodes :
        /\ Invoke("encode_cmd", quality, rv)
        /\ IF run_silent_exits(rv) THEN sys_exit
           ELSE /\ fs' = Output(rv, target(quality), Data("encoded"))
                /\ IF rep + 1 < LossyReps
                   THEN pc' = pc /\ rep' = rep + 1
                   ELSE pc' = "lossy_decode" /\ rep' = 0
                /\ UNCHANGED <<status, isfloat, quality_list, i>>
    /\ UNCHANGED runConst

\* lines 287-298: decode_cmd, timeit(1); then the choice of target_png
lossy_decode ==
    /\ pc = "lossy_decode"
    /\ \E rv \in ExitCodes :
        /\ Invoke("decode_cmd", quality, rv)
        /\ IF run_silent_exits(rv) THEN sys_exit
           ELSE /\ fs' = Output(rv, target_dec(pid, quality), Data("decoded"))
                /\ IF rep + 1 < LossyReps
                   THEN pc' = pc /\ rep' = rep + 1
                   ELSE /\ rep' = 0
                        /\ pc' = IF decode_extension # "png"
                                 THEN "convert_img" ELSE "detect_alpha"
                /\ UNCHANGED <<status, isfloat, quality_list, i>>
    /\ UNCHANGED runConst

\* lines 294-296: convert target_dec PNG24:target_png
convert_img ==
    /\ pc = "convert_img"
    /\ \E rv \in ExitCodes :
        /\ Invoke("convert", quality, rv)
        /\ IF run_silent_exits(rv) THEN sys_exit
           ELSE /\ fs' = Output(rv, target_png(pid, quality, decode_extension),
                                Data("decoded_png"))
                /\ pc' = "detect_alpha"
                /\ UNCHANGED <<status, locals>>
    /\ UNCHANGED runConst

\* Mutant: no image is reported to have an alpha channel.
channels_is_srgba_never(img_has_alpha) == FALSE

\* lines 137-140: what detect_alpha returns for the image identify looked at
channels_is_srgba(img_has_alpha) == img_has_alpha

\* lines 301 and 127-140: identify on the source image
detect_alpha ==
    /\ pc = "detect_alpha"
    /\ \E rv \in ExitCodes :
        /\ Invoke("identify_channels", quality, rv)
        /\ IF returncode_exits(rv) THEN sys_exit
           ELSE /\ pc' = IF ~channels_is_srgba(hasAlpha)
                          THEN "remove_alpha" ELSE "convertff_dec"
                /\ UNCHANGED <<fs, status, locals>>
    /\ UNCHANGED runConst

\* lines 302 and 143-146: convert target_png -alpha off PNG24:target_png
remove_alpha ==
    /\ pc = "remove_alpha"
    /\ \E rv \in ExitCodes :
        /\ Invoke("convert_alpha_off", quality, rv)
        /\ IF run_silent_exits(rv) THEN sys_exit
           ELSE /\ fs' = Output(rv, target_png(pid, quality, decode_extension),
                                Data("decoded_noalpha"))
                /\ pc' = "convertff_dec"
                /\ UNCHANGED <<status, locals>>
    /\ UNCHANGED runConst

\* What ffmpeg makes of the decoded image it is given: the transcode of the
\* image with its alpha channel taken off, or of the image as decoded.
y4m_of(image) ==
    IF image = Data("decoded_noalpha") THEN Data("decoded_noalpha_y4m")
    ELSE Data("decoded_y4m")

\* lines 304-305: ffmpeg, target_dec -> target_y4m
convertff_dec ==
    /\ pc = "convertff_dec"
    /\ \E rv \in ExitCodes :
        /\ Invoke("ffmpeg_dec", quality, rv)
        /\ IF run_silent_exits(rv) THEN sys_exit
           ELSE /\ fs' = Output(rv, target_y4m(pid, quality),
                                y4m_of(fs[target_dec(pid, quality)]))
                /\ pc' = "get_score"
                /\ UNCHANGED <<status, locals>>
    /\ UNCHANGED runConst

\* lines 307-309 and 158-177: vmaf writes target_json
get_score ==
    /\ pc = "get_score"
    /\ \E rv \in ExitCodes :
        /\ Invoke("vmaf", quality, rv)
        /\ IF returncode_exits(rv) THEN sys_exit
           ELSE /\ fs' = Output(rv, target_json(pid, quality), Data("scores"))
                /\ pc' = "get_butteraugli"
                /\ UNCHANGED <<status, locals>>
    /\ UNCHANGED runConst

\* lines 311 and 180-191
get_butteraugli ==
    /\ pc = "get_butteraugli"
    /\ \E rv \in ExitCodes :
        /\ Invoke("butteraugli_main", quality, rv)
        /\ IF returncode_exits(rv) THEN sys_exit
           ELSE pc' = "get_dssim" /\ UNCHANGED <<fs, status, locals>>
    /\ UNCHANGED runConst

\* lines 312 and 194-205
get_dssim ==
    /\ pc = "get_dssim"
    /\ \E rv \in ExitCodes :
        /\ Invoke("dssim", quality, rv)
        /\ IF returncode_exits(rv) THEN sys_exit
           ELSE pc' = "get_ssimulacra" /\ UNCHANGED <<fs, status, locals>>
    /\ UNCHANGED runConst

\* lines 313 and 208-218
get_ssimulacra ==
    /\ pc = "get_ssimulacra"
    /\ \E rv \in ExitCodes :
        /\ Invoke("ssimulacra_main", quality, rv)
        /\ IF returncode_exits(rv) THEN sys_exit
           ELSE pc' = "lossy_row" /\ UNCHANGED <<fs, status, locals>>
    /\ UNCHANGED runConst

\* Mutant: the transcode of the source image is kept for the next point.
lossy_removed_keeps_origy4m(p, q) ==
    <<target_dec(p, q), target_json(p, q), target_y4m(p, q)>>

\* lines 317-323: the files get_lossy_results removes, in this order
lossy_removed(p, q) ==
    <<origy4m(p), target_dec(p, q), target_json(p, q), target_y4m(p, q)>>

\* Mutant: the row replaces what the file holds.
write_row_replaces(f, path, q) == Put(f, path, <<Line("row", q)>>)

\* line 466: the row is written after what the file holds
write_row(f, path, q) == WriteLine(f, path, Line("row", q))

\* line 487
next_i(k) == k + 1

\* lines 315-323 and 463-487: stat, remove the temporary files, write the
\* row, i += 1
lossy_row ==
    /\ pc = "lossy_row"
    /\ fs' = write_row(RemoveAll(fs, lossy_removed(pid, quality)),
                       result_lossy, quality)
    /\ i' = next_i(i)
    /\ pc' = "while"
    /\ UNCHANGED <<status, calls, runConst, isfloat, quality_list, rep>>

\* The state of the other specifications, where it plays no part.
NoPaths ==
    /\ w_pid = <<>>
    /\ w_origpng = <<>>
    /\ w_dext = <<>>
    /\ w_at = <<>>
    /\ w_paths = <<>>

NoRow ==
    /\ orig_file_size = 0
    /\ width = 0
    /\ height = 0
    /\ target_file_size = 0
    /\ row_pc = "none"
    /\ recorded = <<>>

NoPool ==
    /\ config_found = TRUE
    /\ argv = <<>>
    /\ recipe = <<>>
    /\ images = 0
    /\ main_pc = "none"
    /\ taskq = <<>>
    /\ results = <<>>
    /\ wk = <<>>
    /\ job = <<>>
    /\ failures = 0

(***************************************************************************)
(* The specification of process_image run on one Job, up to MaxRuns times  *)
(* in a row, from an empty working directory.                              *)
(***************************************************************************)
\* (start, end, step) of the recipes of the model
Recipes ==
    { MkRecipe("png", IntV(1), IntV(3), IntV(1)),        \* 1, 2
      MkRecipe("ppm", IntV(1), IntV(3), IntV(1)),        \* 1, 2
      MkRecipe("png", IntV(10), IntV(100), IntV(30)),    \* 10, 40, 70
      MkRecipe("png", IntV(3), IntV(1), IntV(0 - 1)),    \* 3, 2
      MkRecipe("png", IntV(2), IntV(2), IntV(1)),        \* empty
      MkRecipe("png", IntV(1), IntV(3), IntV(0)),        \* step 0
      MkRecipe("ppm", FloatV(1), FloatV(3), FloatV(1)),  \* 0.5, 1.0
      MkRecipe("png", IntV(1), FloatV(3), StrV(1)),      \* 1.0 (mixed)
      MkRecipe("png", StrV(1), StrV(2), StrV(1)),        \* "1", "2", "1"
      MkRecipe("png", IntV(1), BadStr, IntV(1)),
      Without(MkRecipe("png", IntV(1), IntV(3), IntV(1)), "quality_end"),
      Without(MkRecipe("png", IntV(1), IntV(3), IntV(1)), "decode_cmd") }

Init ==
    /\ format_recipe \in Recipes
    /\ hasAlpha \in BOOLEAN
    /\ fs = <<>>
    /\ fs0 = <<>>
    /\ pc = "idle"
    /\ status = "none"
    /\ run = 0
    /\ pid = 1
    /\ isfloat = FALSE
    /\ quality_list = <<>>
    /\ i = 0
    /\ rep = 0
    /\ calls = <<>>
    /\ NoPaths
    /\ NoPool
    /\ NoRow

Next ==
    \/ process_image_enter
    \/ process_image_guard
    \/ process_image_parse
    \/ get_img_width
    \/ get_img_height
    \/ open_lossless
    \/ header_lossless
    \/ lossless_encode
    \/ lossless_decode
    \/ lossless_row
    \/ open_lossy
    \/ header_lossy
    \/ build_quality_list
    \/ while_test
    \/ convertff_orig
    \/ lossy_encode
    \/ lossy_decode
    \/ convert_img
    \/ detect_alpha
    \/ remove_alpha
    \/ convertff_dec
    \/ get_score
    \/ get_butteraugli
    \/ get_dssim
    \/ get_ssimulacra
    \/ lossy_row

Spec == Init /\ [][Next]_vars
(***************************************************************************)
(* Properties of process_image (specification Spec).                       *)
(***************************************************************************)
ResultFiles == {result_lossy, result_lossless}
IsPrefix(a, b) == Len(a) <= Len(b) /\ SubSeq(b, 1, Len(a)) = a
NonEmptyFile(f, path) == path \in DOMAIN f /\ f[path] # <<>>
RunOver == run > 0 /\ pc = "idle"
AllZero == \A k \in 1..Len(calls) : calls[k].rv = 0
\* The lines of a result file after its first one.
Rows(f, path) == IF f[path] = <<>> THEN <<>> ELSE Tail(f[path])
Qualities(f, path) == [k \in 1..Len(Rows(f, path)) |-> Rows(f, path)[k].quality]

\* C1: when the lossy result file exists and is not empty as process_image
\* is entered, whatever it holds, the run is skipped: it makes no external
\* invocation and leaves every file as it was.
C1_SkipNoEffect ==
    (run > 0 /\ NonEmptyFile(fs0, result_lossy)) =>
        /\ calls = <<>>
        /\ fs = fs0
        /\ pc \in {"guard", "idle"}
        /\ pc = "idle" => status = "skipped"

\* a second run skipped on a file that holds the header and nothing else
C1_Witness ==
    /\ run = 2
    /\ status = "skipped"
    /\ fs0[result_lossy] = <<lossy_header>>

\* C2 as claimed: a result file that exists is only appended to or left
\* untouched by every step, never cut or replaced.
C2_NeverRewritten ==
    [][\A path \in ResultFiles :
          Exists(fs, path) => Exists(fs', path) /\ IsPrefix(fs[path], fs'[path])
      ]_vars

\* C2 amended: a step cuts a result file only when it is the open of the
\* lossless file by a run that is not skipped, and that open does cut it
\* (mode "w"); a lossy file that is not empty is never cut; every other
\* step appends or leaves the file alone; and when a run is over, what each
\* result file held when the run began is a prefix of what it holds.
C2_StepAppendsOrOpens ==
    \A path \in ResultFiles :
        Exists(fs, path) =>
            /\ Exists(fs', path)
            /\ \/ IsPrefix(fs[path], fs'[path])
               \/ /\ fs'[path] = <<>>
                  /\ path = result_lossless
                  /\ pc = "open_lossless"

C2_RewrittenFromHeader ==
    /\ [][C2_StepAppendsOrOpens]_vars
    /\ [](pc = "header_lossless" => fs[result_lossless] = <<>>)
    /\ [](RunOver => \A path \in ResultFiles :
                        Exists(fs0, path) =>
                            Exists(fs, path) /\ IsPrefix(fs0[path], fs[path]))

\* the lossless file of an earlier run has just been cut by the open
C2_Witness ==
    /\ pc = "header_lossless"
    /\ NonEmptyFile(fs0, result_lossless)
    /\ fs[result_lossless] = <<>>

\* The quality points of the sweep of (start, end, step), step # 0, stated
\* without range(): every start + k*step strictly before end.
InSweep(v, start, end, step) ==
    /\ \E k \in 0..(IF end > start THEN end - start ELSE start - end) :
          v = start + k * step
    /\ step > 0 => v < end
    /\ step < 0 => v > end

SweepSet(start, end, step) ==
    {v \in (IF start < end THEN start ELSE end)..(IF start < end THEN end ELSE start) :
        InSweep(v, start, end, step)}

StrictlyOrdered(seq, step) ==
    \A k \in 1..(Len(seq) - 1) :
        /\ step > 0 => seq[k] < seq[k + 1]
        /\ step < 0 => seq[k] > seq[k + 1]

RecipeStart == bound(format_recipe, "quality_start")
RecipeEnd == bound(format_recipe, "quality_end")
RecipeStep == bound(format_recipe, "quality_step")
SweepDefined == parse_outcome(format_recipe) = "ok" /\ RecipeStep # 0

\* C3: when a run that is not skipped is over and every external invocation
\* exited zero, the lossy result file holds the header, then one row per
\* quality point of the sweep, in sweep order, none missing, none twice;
\* bounds (10, 100, 30) give the rows 10, 40, 70.
C3_OneRowPerQualityPoint ==
    (RunOver /\ status # "skipped" /\ AllZero /\ SweepDefined) =>
        /\ status = "returned"
        /\ Exists(fs, result_lossy)
        /\ Len(fs[result_lossy]) >= 1
        /\ fs[result_lossy][1] = lossy_header
        /\ \A k \in 1..Len(Rows(fs, result_lossy)) :
              Rows(fs, result_lossy)[k].type = "row"
        /\ {Qualities(fs, result_lossy)[k] : k \in 1..Len(Rows(fs, result_lossy))}
              = SweepSet(RecipeStart, RecipeEnd, RecipeStep)
        /\ StrictlyOrdered(Qualities(fs, result_lossy), RecipeStep)
        /\ (RecipeStart = 10 /\ RecipeEnd = 100 /\ RecipeStep = 30) =>
              Qualities(fs, result_lossy) = <<10, 40, 70>>

\* the run of the recipe (10, 100, 30) is over with its three rows
C3_Witness ==
    /\ RunOver
    /\ status = "returned"
    /\ AllZero
    /\ Len(calls) > 0
    /\ Qualities(fs, result_lossy) = <<10, 40, 70>>
\* The external invocations get_lossy_results makes for one quality point.
LossyCmds ==
    {"ffmpeg_orig", "encode_cmd", "decode_cmd", "identify_channels",
     "ffmpeg_dec", "vmaf", "butteraugli_main", "dssim", "ssimulacra_main"}
        \cup (IF decode_extension # "png" THEN {"convert"} ELSE {})
        \cup (IF ~hasAlpha THEN {"convert_alpha_off"} ELSE {})

\* C5: an external invocation that exits non-zero is the last thing the run
\* does (the process ends there, no further invocation follows), and the
\* lossy result file a run has written holds a row for quality q only if
\* every invocation for q was made and exited zero.
C5_NoPartialSuccess ==
    /\ \A k \in 1..Len(calls) :
          calls[k].rv # 0 =>
              k = Len(calls) /\ pc = "idle" /\ status = "exited"
    /\ (Exists(fs, result_lossy) /\ ~Exists(fs0, result_lossy)) =>
          \A r \in 1..Len(Rows(fs, result_lossy)) :
              LET q == Rows(fs, result_lossy)[r].quality IN
              /\ \A c \in LossyCmds :
                    \E k \in 1..Len(calls) :
                        calls[k].cmd = c /\ calls[k].q = q /\ calls[k].rv = 0
              /\ \A k \in 1..Len(calls) : calls[k].q = q => calls[k].rv = 0

\* the process ended at a failing dssim of the second quality point, the
\* row of the first one is in the file and no row of the second
C5_Witness ==
    /\ status = "exited"
    /\ Len(calls) > 0
    /\ calls[Len(calls)].cmd = "dssim"
    /\ calls[Len(calls)].rv # 0
    /\ Len(fs[result_lossy]) = 2
    /\ calls[Len(calls)].q # fs[result_lossy][2].quality

\* The process-scoped temporary files the current run has created and left.
LeftTmp == {path \in DOMAIN fs \ DOMAIN fs0 : IsTmp(path)}

\* C6 as claimed: after a run in which every external program exited zero,
\* no temporary file the run created is left.
C6_NoTmpAfterSuccess ==
    (RunOver /\ status = "returned" /\ AllZero) => LeftTmp = {}

\* C7 as claimed: after a run ended by a failing invocation inside the
\* sweep, no temporary file the run created is left.
C7_NoTmpAfterFailure ==
    (RunOver /\ status = "exited" /\ Len(calls) > 0
        /\ calls[Len(calls)].q # NoQ) => LeftTmp = {}
(***************************************************************************)
(* The quality list on its own (specification SpecRange): process_image    *)
(* stands at line 449, the lossless benchmark done and the lossy header    *)
(* written, with integer bounds drawn from -RangeBound..RangeBound and the *)
(* bounds (10, 100, 30); the step taken is build_quality_list.             *)
(***************************************************************************)
RangeBound == 3

\* the largest real-valued quality_end, in tenths
MaxTenths == 20

RangeRecipes ==
    { MkRecipe("png", IntV(s), IntV(e), IntV(st)) :
        s \in (0 - RangeBound)..RangeBound,
        e \in (0 - RangeBound)..RangeBound,
        st \in (0 - RangeBound)..RangeBound }
    \cup { MkRecipe("png", IntV(10), IntV(100), IntV(30)) }
    \cup { MkRecipe("png", FloatV(1), FloatV(4), FloatV(1)) }  \* 0.5, 2.0, 0.5
    \cup { MkRecipe("png", DecV(s), DecV(e), DecV(st)) :
             s \in {5, 10}, e \in 5..MaxTenths, st \in {1, 2, 5} }

\* The invocations of a run up to line 449, all of them successful.
CallsBeforeSweep ==
    [k \in 1..(2 + 2 * LosslessReps) |->
        [cmd |-> IF k = 1 THEN "identify_w"
                 ELSE IF k = 2 THEN "identify_h"
                 ELSE IF k <= 2 + LosslessReps THEN "lossless_cmd"
                 ELSE "lossless_decode_cmd",
         q |-> NoQ, rv |-> 0]]

\* The files of a run up to line 449.
FilesBeforeSweep ==
    Put(Put(Put(<<>>, result_lossless, <<lossless_header, Line("row", NoQ)>>),
            lossless_target, Data("lossless")),
        result_lossy, <<lossy_header>>)

InitRange ==
    /\ format_recipe \in RangeRecipes
    /\ hasAlpha = FALSE
    /\ fs = FilesBeforeSweep
    /\ fs0 = <<>>
    /\ pc = "quality_list"
    /\ status = "running"
    /\ run = 1
    /\ pid = 1
    /\ isfloat = recipe_isfloat(format_recipe)
    /\ quality_list = <<>>
    /\ i = 0
    /\ rep = 0
    /\ calls = CallsBeforeSweep
    /\ NoPaths
    /\ NoPool
    /\ NoRow

NextRange == build_quality_list

SpecRange == InitRange /\ [][NextRange]_vars

\* C4: for integer bounds with step # 0 the quality list is the progression
\* start, start + step, ...: every start + k*step (k >= 0) strictly before
\* end in the direction of step and nothing else, in that order; end is
\* never in it; it is empty when start >= end with a positive step or
\* start <= end with a negative one.
C4_HalfOpenProgression ==
    (pc = "while" /\ ~isfloat) =>
        /\ {quality_list[k] : k \in 1..Len(quality_list)}
              = SweepSet(RecipeStart, RecipeEnd, RecipeStep)
        /\ StrictlyOrdered(quality_list, RecipeStep)
        /\ \A k \in 1..Len(quality_list) :
              /\ quality_list[k] = RecipeStart + (k - 1) * RecipeStep
              /\ quality_list[k] # RecipeEnd
        /\ (RecipeStep > 0 /\ RecipeStart >= RecipeEnd) => quality_list = <<>>
        /\ (RecipeStep < 0 /\ RecipeStart <= RecipeEnd) => quality_list = <<>>
        /\ (RecipeStart = 10 /\ RecipeEnd = 100 /\ RecipeStep = 30) =>
              quality_list = <<10, 40, 70>>

\* the list of (10, 100, 30) has been built
C4_Witness ==
    /\ pc = "while"
    /\ RecipeStart = 10 /\ RecipeEnd = 100 /\ RecipeStep = 30
    /\ quality_list = <<10, 40, 70>>
(***************************************************************************)
(* File names as the code builds them (specification SpecPaths).  A string *)
(* is the sequence of its characters, + is \o.  Two Jobs of one batch run  *)
(* side by side in two workers of the pool; each records the paths it      *)
(* creates, overwrites or removes.  subset_name is "s", format is "f",     *)
(* encode_extension is "e", the sweep is 1, 2.                             *)
(***************************************************************************)
\* Worker processes get their process identifiers from 1..MaxWorkerPid.
MaxWorkerPid == 12

Digits == <<"0", "1", "2", "3", "4", "5", "6", "7", "8", "9">>

\* str(n) for n >= 0
RECURSIVE str(_)
str(n) == IF n < 10 THEN <<Digits[n + 1]>>
          ELSE str(n \div 10) \o <<Digits[(n % 10) + 1]>>

\* The last place of character c in string t, 0 if there is none.
RECURSIVE rfind(_, _)
rfind(t, c) == IF t = <<>> THEN 0
               ELSE IF t[Len(t)] = c THEN Len(t)
               ELSE rfind(SubSeq(t, 1, Len(t) - 1), c)

\* os.path.basename
basename(path) == SubSeq(path, rfind(path, "/") + 1, Len(path))

\* os.path.splitext(name)[0] for a name without "/": the extension starts
\* at the last dot, unless only dots come before it
splitext_root(name) ==
    LET d == rfind(name, ".") IN
    IF d = 0 \/ (\A k \in 1..(d - 1) : name[k] = ".") THEN name
    ELSE SubSeq(name, 1, d - 1)

tmpdir == <<"/", "t", "m", "p", "/">>

\* lines 91-92: tmpdir + str(os.getpid()) + os.path.basename(path)
path_for_file_in_tmp(path, p) == tmpdir \o str(p) \o basename(path)

stem(origpng_) == splitext_root(basename(origpng_))

\* lines 343-353 and 432-442
result_file_lossy(origpng_) ==
    <<"r", "e", "s", "u", "l", "t", "s", "/", "s", "/", "f", "/", "l", "o", "s", "s", "y", "/">> \o stem(origpng_) \o <<".", "f", ".", "o", "u", "t">>

\* lines 394-404
result_file_lossless(origpng_) ==
    <<"r", "e", "s", "u", "l", "t", "s", "/", "s", "/", "f", "/", "l", "o", "s", "s", "l", "e", "s", "s", "/">> \o stem(origpng_) \o <<".", "f", ".", "o", "u", "t">>

\* lines 225-234: target before the extension is added
lossless_target_root(origpng_) ==
    <<"F", "_", "o", "u", "t", "/", "s", "/">> \o stem(origpng_) \o <<"/">> \o stem(origpng_) \o <<"-", "l", "o", "s", "s", "l", "e", "s", "s">>

\* lines 268-278: target before the extension is added
lossy_target_root(origpng_, q) ==
    <<"F", "_", "o", "u", "t", "/", "s", "/">> \o stem(origpng_) \o <<"/">> \o stem(origpng_) \o <<"-", "q">> \o str(q)

\* The paths get_lossless_results and lines 394-444 write.
lossless_paths(origpng_, p, dext) ==
    { result_file_lossless(origpng_),
      result_file_lossy(origpng_),
      lossless_target_root(origpng_) \o <<".", "e">>,
      path_for_file_in_tmp(lossless_target_root(origpng_), p) \o <<".">> \o dext }

\* The paths get_lossy_results writes for quality q, lines 265-305.
lossy_paths(origpng_, p, dext, q) ==
    LET target_dec_ == path_for_file_in_tmp(lossy_target_root(origpng_, q), p)
                          \o <<".">> \o dext
    IN  { path_for_file_in_tmp(origpng_, p) \o <<".", "y", "4", "m">>,
          lossy_target_root(origpng_, q) \o <<".", "e">>,
          target_dec_,
          path_for_file_in_tmp(lossy_target_root(origpng_, q), p) \o <<".", "j", "s", "o", "n">>,
          IF dext # <<"p", "n", "g">>
          THEN path_for_file_in_tmp(target_dec_, p) \o <<".", "p", "n", "g">>
          ELSE target_dec_,
          path_for_file_in_tmp(target_dec_, p) \o <<".", "y", "4", "m">>,
          result_file_lossy(origpng_) }

\* glob.glob(argv[3] + "/*.png"): the images of the directory "d"
Images ==
    { <<"d", "/">> \o n \o <<".", "p", "n", "g">> : n \in {<<"a">>, <<"2", "a">>, <<"b">>} }

PathWorkers == {1, 2}
PathSweep == <<1, 2>>

InitPaths ==
    /\ w_pid \in {f \in [PathWorkers -> 1..MaxWorkerPid] : f[1] # f[2]}
    /\ w_origpng \in {f \in [PathWorkers -> Images] : f[1] # f[2]}
    /\ w_dext \in {<<"p", "n", "g">>, <<"p", "p", "m">>}
    /\ w_at = [w \in PathWorkers |-> 0]
    /\ w_paths = [w \in PathWorkers |-> {}]
    /\ format_recipe = MkRecipe("png", IntV(1), IntV(3), IntV(1))
    /\ hasAlpha = FALSE
    /\ fs = <<>>
    /\ fs0 = <<>>
    /\ pc = "idle"
    /\ status = "none"
    /\ run = 0
    /\ pid = 1
    /\ isfloat = FALSE
    /\ quality_list = <<>>
    /\ i = 0
    /\ rep = 0
    /\ calls = <<>>
    /\ NoPool
    /\ NoRow

\* Worker w runs the lossless benchmark of its Job and opens the lossy file.
job_lossless_paths(w) ==
    /\ w_at[w] = 0
    /\ w_paths' = [w_paths EXCEPT ![w] =
                      @ \cup lossless_paths(w_origpng[w], w_pid[w], w_dext)]
    /\ w_at' = [w_at EXCEPT ![w] = 1]
    /\ UNCHANGED <<w_pid, w_origpng, w_dext, jobVars, poolVars, rowVars>>

\* Worker w runs get_lossy_results for the next quality point of its Job.
job_lossy_paths(w) ==
    /\ w_at[w] >= 1
    /\ w_at[w] <= Len(PathSweep)
    /\ w_paths' = [w_paths EXCEPT ![w] =
                      @ \cup lossy_paths(w_origpng[w], w_pid[w], w_dext,
                                         PathSweep[w_at[w]])]
    /\ w_at' = [w_at EXCEPT ![w] = @ + 1]
    /\ UNCHANGED <<w_pid, w_origpng, w_dext, jobVars, poolVars, rowVars>>

NextPaths ==
    \/ \E w \in PathWorkers : job_lossless_paths(w)
    \/ \E w \in PathWorkers : job_lossy_paths(w)

SpecPaths == InitPaths /\ [][NextPaths]_vars

\* C8 as claimed: two Jobs on distinct images run by workers with distinct
\* process identifiers never write the same path.
C8_DisjointPaths == w_paths[1] \cap w_paths[2] = {}

(***************************************************************************)
(* main and the worker pool (lines 492-531).  SpecPool follows one run of  *)
(* main: the pool's workers take chunks of Jobs off the task queue and     *)
(* call process_image on each Job of a chunk in turn.  A Job is followed   *)
(* through its three parts: the guard and the reading of the recipe, the   *)
(* lossless benchmark, the lossy sweep.  Each Job has its own image and    *)
(* so its own two result files, kept here by how far they were written.    *)
(***************************************************************************)
\* Pool(processes=16), line 524, scaled down
PoolProcesses == 2
\* the largest directory of images: more than 4 * PoolProcesses, so that
\* the chunks of the map hold more than one Job
MaxImages == 9

Workers == 1 .. PoolProcesses
Jobs == 1 .. images

\* multiprocessing.Pool.map: chunksize = ceil(len(iterable) / (4 * processes))
chunksize(n) == CeilDiv(n, 4 * PoolProcesses)
\* Pool._get_tasks: the Jobs in order, cut into chunks of chunksize
get_tasks(n) ==
    IF n = 0 THEN <<>>
    ELSE [k \in 1 .. CeilDiv(n, chunksize(n)) |->
            [m \in 1 .. (IF k * chunksize(n) <= n THEN chunksize(n)
                         ELSE n - (k - 1) * chunksize(n)) |->
                (k - 1) * chunksize(n) + m]]

idle == [state |-> "idle", chunk |-> 0, rest |-> <<>>, phase |-> "none"]

\* the recipes.json entries of the model
PoolRecipes ==
    { MkRecipe("png", IntV(1), IntV(3), IntV(1)),        \* 1, 2
      MkRecipe("png", IntV(1), FloatV(4), IntV(1)),      \* mixed: 1.0
      MkRecipe("png", IntV(2), IntV(2), IntV(1)),        \* empty sweep
      MkRecipe("png", IntV(1), IntV(3), IntV(0)),        \* step 0
      MkRecipe("png", IntV(1), BadStr, IntV(1)),
      Without(MkRecipe("png", IntV(1), IntV(3), IntV(1)), "quality_end"),
      Without(MkRecipe("png", IntV(1), IntV(3), IntV(1)), "decode_cmd") }

\* sys.argv: the right number of arguments or one too few; the format in
\* recipes.json ("f") or another
Argvs == { [n |-> 4, format |-> "f"], [n |-> 4, format |-> "x"],
           [n |-> 3, format |-> "f"] }

InitPool ==
    /\ config_found \in BOOLEAN
    /\ argv \in Argvs
    /\ recipe \in PoolRecipes
    /\ images \in {0, 1, MaxImages}
    /\ main_pc = "start"
    /\ taskq = <<>>
    /\ results = <<>>
    /\ wk = [w \in Workers |-> [idle EXCEPT !.state = "none"]]
    \* the first image may have its lossy results from an earlier run
    /\ \E done \in BOOLEAN :
          job = [j \in Jobs |->
                   [state |-> "pending", runs |-> 0, invoked |-> FALSE,
                    lossless |-> "absent",
                    lossy |-> IF done /\ j = 1 THEN "rows" ELSE "absent"]]
    /\ failures = 0
    /\ NoPaths
    /\ NoRow
    /\ format_recipe = <<>>
    /\ hasAlpha = FALSE
    /\ fs = <<>>
    /\ fs0 = <<>>
    /\ pc = "idle"
    /\ status = "none"
    /\ run = 0
    /\ pid = 0
    /\ isfloat = FALSE
    /\ quality_list = <<>>
    /\ i = 0
    /\ rep = 0
    /\ calls = <<>>

poolConst == <<config_found, argv, recipe, images, jobVars, pathVars, rowVars>>

\* line 503: list(data["recipes"].keys())
supported_formats == {"f"}

\* Mutant: a missing recipes.json goes unnoticed.
FileNotFoundError_never == FALSE

\* lines 497-500: open("recipes.json") raises FileNotFoundError
FileNotFoundError == ~config_found

\* Mutant: only the number of arguments is looked at.
usage_or_unsupported_count_only == argv.n # 4

\* lines 505 and 516: len(argv) != 4, or format not in supported_formats
usage_or_unsupported == argv.n # 4 \/ argv.format \notin supported_formats

\* lines 496-531, up to the call of pool.map
main_start ==
    /\ main_pc = "start"
    /\ IF FileNotFoundError
       THEN \* line 501: raise Exception("Could not find recipes.json")
            /\ main_pc' = "raised"
            /\ UNCHANGED <<taskq, results, wk>>
       ELSE IF usage_or_unsupported
       THEN \* lines 505-512 and 516-522: print and return
            /\ main_pc' = "returned"
            /\ UNCHANGED <<taskq, results, wk>>
       ELSE \* lines 524-531: the pool starts its workers, map queues the
            \* chunks and waits
            /\ main_pc' = "map"
            /\ taskq' = get_tasks(images)
            /\ results' = [k \in 1 .. Len(get_tasks(images)) |-> "none"]
            /\ wk' = [w \in Workers |-> idle]
    /\ UNCHANGED <<job, failures, poolConst>>

\* mapstar in the worker: process_image returned (go on with the chunk, or
\* send its result) or raised (the exception is the chunk's result and the
\* rest of the chunk is not called)
job_over(w, chunk, rest, raised) ==
    IF raised
    THEN /\ wk' = [wk EXCEPT ![w] = idle]
         /\ results' = [results EXCEPT ![chunk] = "exc"]
    ELSE IF Len(rest) > 1
    THEN /\ wk' = [wk EXCEPT ![w] = [state |-> "busy", chunk |-> chunk,
                                     rest |-> Tail(rest), phase |-> "call"]]
         /\ UNCHANGED results
    ELSE /\ wk' = [wk EXCEPT ![w] = idle]
         /\ results' = [results EXCEPT ![chunk] = "ok"]

\* SystemExit in process_image (sys.exit, line 71): the worker process
\* ends, and the chunk's result is never sent
worker_exits(w) ==
    /\ wk' = [wk EXCEPT ![w] = [idle EXCEPT !.state = "dead"]]
    /\ UNCHANGED results

\* lines 343-355: the lossy result file exists and is not empty
job_already_done(j) == job[j].lossy # "absent"

\* lines 340-384: process_image is called on the first Job of rest, and
\* gets past its guard and the reading of the recipe or ends there
call_process_image(w, chunk, rest) ==
    LET j == Head(rest)
        out == IF job_already_done(j) THEN "skipped"
               ELSE CASE parse_outcome(recipe) = "KeyError" -> "raised"
                      [] parse_outcome(recipe) = "ok" -> "running"
                      [] OTHER -> "reported"
    IN  /\ job' = [job EXCEPT ![j].runs = @ + 1, ![j].state = out]
        /\ IF out = "running"
           THEN /\ wk' = [wk EXCEPT ![w] = [state |-> "busy", chunk |-> chunk,
                                            rest |-> rest, phase |-> "run"]]
                /\ UNCHANGED results
           ELSE job_over(w, chunk, rest, out = "raised")

\* Mutant: the chunk stays on the task queue.
worker_get_keeps_task(w) ==
    /\ wk[w].state = "idle"
    /\ taskq # <<>>
    /\ call_process_image(w, Len(results) - Len(taskq) + 1, Head(taskq))
    /\ UNCHANGED <<taskq, main_pc, failures, poolConst>>

\* multiprocessing.pool.worker: take the next chunk off the task queue and
\* call process_image on its first Job
worker_get(w) ==
    /\ wk[w].state = "idle"
    /\ taskq # <<>>
    /\ call_process_image(w, Len(results) - Len(taskq) + 1, Head(taskq))
    /\ taskq' = Tail(taskq)
    /\ UNCHANGED <<main_pc, failures, poolConst>>

\* mapstar: call process_image on the next Job of the chunk
worker_next(w) ==
    /\ wk[w].state = "busy"
    /\ wk[w].phase = "call"
    /\ call_process_image(w, wk[w].chunk, wk[w].rest)
    /\ UNCHANGED <<main_pc, taskq, failures, poolConst>>

\* what the Job's files are left as
lossless_left(out) ==
    IF out = "identify_fails" THEN "absent"
    ELSE IF out = "codec_fails" THEN "header" ELSE "row"
lossy_left(out) ==
    CASE out \in {"identify_fails", "codec_fails"} -> "absent"
      [] out \in {"raised", "empty"} -> "header"
      [] out = "sweep_fails" -> "partial"
      [] OTHER -> "rows"

\* lines 386-489, the rest of process_image: the lossless benchmark (lines
\* 386-429: identify, or a later tool, may exit non-zero), then the lossy
\* file is opened and headed, the quality list is built (range and arange
\* raise on a step of 0) and swept (lines 432-489: a tool may exit non-zero).
\* At most one invocation exits non-zero in a run of main.
worker_run(w) ==
    /\ wk[w].state = "busy"
    /\ wk[w].phase = "run"
    /\ LET j == Head(wk[w].rest)
           Outs == IF bound(recipe, "quality_step") = 0 THEN {"raised"}
                   ELSE IF make_quality_list(recipe) = <<>> THEN {"empty"}
                   ELSE {"ok", "sweep_fails"}
       IN  \E out \in Outs \cup {"identify_fails", "codec_fails"} :
              /\ job' = [job EXCEPT
                           ![j].invoked = TRUE,
                           ![j].lossless = lossless_left(out),
                           ![j].lossy = lossy_left(out),
                           ![j].state =
                              IF out \in {"ok", "empty"} THEN "returned"
                              ELSE IF out = "raised" THEN "raised"
                              ELSE "lost"]
              /\ IF out \in {"ok", "empty", "raised"}
                 THEN /\ job_over(w, wk[w].chunk, wk[w].rest, out = "raised")
                      /\ UNCHANGED failures
                 ELSE /\ failures = 0
                      /\ failures' = 1
                      /\ worker_exits(w)
    /\ UNCHANGED <<main_pc, taskq, poolConst>>

\* Pool._maintain_pool: a worker process that ended is replaced
pool_repopulate(w) ==
    /\ wk[w].state = "dead"
    /\ wk' = [wk EXCEPT ![w] = idle]
    /\ UNCHANGED <<main_pc, taskq, results, job, failures, poolConst>>

\* MapResult: map returns once every chunk has sent its result, and raises
\* the first exception sent if there is one
main_map_done ==
    /\ main_pc = "map"
    /\ \A k \in DOMAIN results : results[k] # "none"
    /\ main_pc' = IF \E k \in DOMAIN results : results[k] = "exc"
                  THEN "raised" ELSE "returned"
    /\ UNCHANGED <<taskq, results, wk, job, failures, poolConst>>

NextPool ==
    \/ main_start
    \/ \E w \in Workers : worker_get(w)
    \/ \E w \in Workers : worker_next(w)
    \/ \E w \in Workers : worker_run(w)
    \/ \E w \in Workers : pool_repopulate(w)
    \/ main_map_done

SpecPool == InitPool /\ [][NextPool]_vars

(***************************************************************************)
(* Claims about main and the pool.                                         *)
(***************************************************************************)
\* main got as far as pool.map: recipes.json found, three arguments, a
\* format of recipes.json
Selected == config_found /\ argv.n = 4 /\ argv.format \in supported_formats
\* the recipe has every field, its bounds are numbers and its step is not 0
ValidRecipe == parse_outcome(recipe) = "ok" /\ bound(recipe, "quality_step") # 0
JobsInProgress == {j \in Jobs : job[j].state = "running"}
\* the workers inside process_image on Job j
RunnersOf(j) == {w \in Workers : wk[w].state = "busy" /\ wk[w].phase = "run"
                                 /\ Head(wk[w].rest) = j}
Finished(j) == job[j].state \in {"returned", "skipped"}
\* the Job's benchmark ran to its end: the lossless row and the lossy file
Completed(j) == /\ job[j].lossless = "row"
                /\ job[j].lossy = (IF make_quality_list(recipe) = <<>>
                                   THEN "header" ELSE "rows")

MissingField == ~((TextFields \cup QualityFields) \subseteq DOMAIN recipe)
MissingBound == ~(QualityFields \subseteq DOMAIN recipe)
MixedKinds ==
    /\ ~MissingField
    /\ \E f \in QualityFields : recipe[f].kind = "int"
    /\ \E f \in QualityFields : recipe[f].kind = "float"
\* no tool was invoked for a Job and no file of a Job was created
NothingDone ==
    \A j \in Jobs : /\ ~job[j].invoked
                    /\ job[j].lossless = "absent"
                    /\ job[j].lossy \in {"absent", "rows"}
                    /\ job[j].lossy = "rows" =>
                          job[j].state \in {"pending", "skipped"}

NoPoolNoJob ==
    /\ \A w \in Workers : wk[w].state = "none"
    /\ taskq = <<>> /\ results = <<>>
    /\ \A j \in Jobs : /\ job[j].state = "pending" /\ job[j].runs = 0
                       /\ ~job[j].invoked
                       /\ job[j].lossless = "absent"
                       /\ job[j].lossy = (IF j = 1 THEN job[1].lossy
                                          ELSE "absent")
                       /\ job[j].lossy \in {"absent", "rows"}
    /\ failures = 0

\* C11: when recipes.json is missing, main raises at startup and stays
\* there: the pool is never created, no Job is dispatched, no tool is
\* invoked and no file is created.
C11_MissingConfigFailsFirst ==
    (~config_found /\ main_pc # "start") =>
        main_pc = "raised" /\ NoPoolNoJob

\* recipes.json is missing, the arguments are right, the directory holds
\* MaxImages images, and main has raised.
C11_Witness ==
    /\ ~config_found /\ argv.n = 4 /\ argv.format \in supported_formats
    /\ images = MaxImages
    /\ main_pc = "raised"

\* C12: with recipes.json loaded, a wrong number of arguments or a format
\* that is no key of the recipes makes main print and return normally: the
\* pool is never created, no Job is dispatched, no tool is invoked and no
\* file is created.
C12_UsageReturnsClean ==
    (config_found /\ (argv.n # 4 \/ argv.format \notin supported_formats)
     /\ main_pc # "start") =>
        main_pc = "returned" /\ NoPoolNoJob

\* main returned on a format that recipes.json does not have, with the
\* right number of arguments and MaxImages images in the directory.
C12_Witness ==
    /\ config_found /\ argv.n = 4 /\ argv.format \notin supported_formats
    /\ images = MaxImages
    /\ main_pc = "returned"

\* A recipe with which a Job meets a ValueError on its quality bounds:
\* int() or float() on a string that is no number (lines 364-371), or
\* range() on a step of 0 (line 452).
ValueErrorRecipe ==
    \/ parse_outcome(recipe) = "ValueError"
    \/ /\ parse_outcome(recipe) = "ok"
       /\ ~recipe_isfloat(recipe)
       /\ bound(recipe, "quality_step") = 0

\* C13 as claimed: with such a recipe every Job that is called and not
\* skipped reports and returns, no tool is invoked and no file is created
\* or written, main does not raise, and when main has returned every Job
\* of the batch was called.
C13_ValueErrorReported ==
    (Selected /\ ValueErrorRecipe) =>
        /\ \A j \in Jobs : job[j].state \in {"pending", "skipped", "reported"}
        /\ NothingDone
        /\ main_pc # "raised"
        /\ main_pc = "returned" => \A j \in Jobs : job[j].runs = 1

(***************************************************************************)
(* The numbers of a result row (lines 386-389, 412-427, 463-486).          *)
(* SpecRow takes the sizes and dimensions process_image has in hand when   *)
(* it writes a row and follows the arithmetic and the formatting of the    *)
(* fields.  A field written with %d is the integer; a field written with   *)
(* %f is the quotient to six decimal places, kept here as a count of       *)
(* millionths.  Below 1024 pixels and 1024 bytes no quotient lies halfway  *)
(* between two such values.                                                *)
(***************************************************************************)
\* the largest file size, in bytes
MaxBytes == 4
\* the largest width and height
MaxSide == 3

\* 10^6: the "%f" conversion keeps six decimal places
Million == 1000000

\* Mutant: the decimals after the sixth are cut off.
format_f_truncates(num, den) == (num * Million) \div den

\* "%f" % (num / den), in millionths: the nearest multiple of 10^-6
format_f(num, den) == (2 * num * Million + den) \div (2 * den)

\* no row was written: not yet (error "none"), or a division raised
no_row(error) == [written |-> FALSE, error |-> error, file |-> "none",
                  orig_file_size |-> 0,
                  compressed_file_size |-> 0, pixels |-> 0, bpp |-> 0,
                  compression_ratio |-> 0]

\* lines 389, 413-427 and 463-486: the fields of the row written, or the
\* ZeroDivisionError of one of the two divisions
row_fields(file, orig, size, w, h) ==
    LET pixels == w * h IN
    IF pixels = 0 \/ size = 0 THEN no_row("ZeroDivisionError")
    ELSE [written |-> TRUE, error |-> "none", file |-> file,
          orig_file_size |-> orig,
          compressed_file_size |-> size,
          pixels |-> pixels,
          bpp |-> format_f(size * 8, pixels),
          compression_ratio |-> format_f(orig, size)]

InitRow ==
    /\ orig_file_size \in 1 .. MaxBytes
    /\ width \in 0 .. MaxSide
    /\ height \in 0 .. MaxSide
    /\ target_file_size \in 0 .. MaxBytes
    /\ row_pc = "lossless"
    /\ recorded = no_row("none")
    /\ NoPaths
    /\ NoPool
    /\ format_recipe = <<>>
    /\ hasAlpha = FALSE
    /\ fs = <<>>
    /\ fs0 = <<>>
    /\ pc = "idle"
    /\ status = "none"
    /\ run = 0
    /\ pid = 0
    /\ isfloat = FALSE
    /\ quality_list = <<>>
    /\ i = 0
    /\ rep = 0
    /\ calls = <<>>

\* lines 412-427: the row of the lossless result file
record_lossless_row ==
    /\ row_pc = "lossless"
    /\ recorded' = row_fields("lossless", orig_file_size, target_file_size,
                             width, height)
    /\ row_pc' = IF recorded'.written THEN "lossy" ELSE "raised"
    /\ UNCHANGED <<orig_file_size, width, height, target_file_size,
                   jobVars, pathVars, poolVars>>

\* lines 460-486: the row of a quality point, whose artifact has a size of
\* its own
record_lossy_row ==
    /\ row_pc = "lossy"
    /\ \E size \in 0 .. MaxBytes :
          /\ target_file_size' = size
          /\ recorded' = row_fields("lossy", orig_file_size, size, width, height)
    /\ row_pc' = IF recorded'.written THEN "lossy" ELSE "raised"
    /\ UNCHANGED <<orig_file_size, width, height, jobVars, pathVars, poolVars>>

NextRow == record_lossless_row \/ record_lossy_row

SpecRow == InitRow /\ [][NextRow]_vars

\* C14 as claimed: the fields of every row written satisfy
\* bpp * pixels = 8 * compressed_file_size and
\* compression_ratio * compressed_file_size = orig_file_size exactly, and
\* no row is written with pixels = 0 or compressed_file_size = 0.
C14_ExactIdentities ==
    recorded.written =>
        /\ recorded.bpp * recorded.pixels
              = 8 * recorded.compressed_file_size * Million
        /\ recorded.compression_ratio * recorded.compressed_file_size
              = recorded.orig_file_size * Million
        /\ recorded.pixels # 0 /\ recorded.compressed_file_size # 0

\* twice the distance between a and b
Twice_abs(a, b) == IF a >= b THEN 2 * (a - b) ELSE 2 * (b - a)

\* C14, amended: pixels = width * height, the sizes are the integers
\* measured, bpp and compression_ratio are the two quotients to six decimal
\* places, so that the identities hold to within half a millionth per
\* pixel and per byte; no row is written with pixels = 0 or
\* compressed_file_size = 0, where the division raises instead.
C14_RoundedIdentities ==
    /\ recorded.written =>
          /\ recorded.pixels = width * height
          /\ recorded.compressed_file_size = target_file_size
          /\ recorded.orig_file_size = orig_file_size
          /\ Twice_abs(recorded.bpp * recorded.pixels,
                       8 * recorded.compressed_file_size * Million)
                <= recorded.pixels
          /\ Twice_abs(recorded.compression_ratio
                          * recorded.compressed_file_size,
                       recorded.orig_file_size * Million)
                <= recorded.compressed_file_size
          /\ recorded.pixels # 0 /\ recorded.compressed_file_size # 0
    /\ row_pc = "raised" =>
          /\ recorded.error = "ZeroDivisionError"
          /\ width * height = 0 \/ target_file_size = 0

\* A lossy row of an image of 3 pixels with an artifact of 1 byte: bpp is
\* written as 2.666667.
C14_Witness ==
    /\ recorded.written /\ recorded.file = "lossy"
    /\ recorded.pixels = 3 /\ recorded.compressed_file_size = 1
    /\ recorded.bpp = 2666667

\* C15 as claimed: for real-valued bounds with step > 0 the quality list
\* holds start + k*step for every k >= 0 with start + k*step < end, in
\* that order, and never a value >= end; (0.5, 2.0, 0.5) gives
\* [0.5, 1.0, 1.5].
C15_RealHalfOpen ==
    (pc = "while" /\ isfloat /\ RecipeStep > 0) =>
        /\ \A k \in 1..Len(quality_list) : quality_list[k] < RecipeEnd
        /\ Len(quality_list)
              = Cardinality({k \in 0..(4 * One) :
                                RecipeStart + k * RecipeStep < RecipeEnd})
        /\ (RecipeStart = One \div 2 /\ RecipeEnd = 2 * One
            /\ RecipeStep = One \div 2) =>
              quality_list = <<One \div 2, One, One + (One \div 2)>>

(***************************************************************************)
(* Claims about the steps of a quality point (get_lossy_results).          *)
(***************************************************************************)
\* the places of the invocations of cmd in the run, and of those for q
CallsOf(cmd) == {k \in 1..Len(calls) : calls[k].cmd = cmd}
CallsAt(cmd, q) == {k \in CallsOf(cmd) : calls[k].q = q}
\* the run is inside a quality point, past the transcode of the source
PastConvertffOrig ==
    pc \in {"lossy_encode", "lossy_decode", "convert_img", "detect_alpha",
            "remove_alpha", "convertff_dec", "get_score", "get_butteraugli",
            "get_dssim", "get_ssimulacra", "lossy_row"}
\* the run is between two quality points, or past the last one
BetweenPoints == pc \in {"while", "convertff_orig"} /\ i >= 1

\* C16 as claimed: the transcode of the source image is invoked at most
\* once in a run, for the first quality point, and its output is still
\* there between two quality points.
C16_ReferenceOnce ==
    /\ Cardinality(CallsOf("ffmpeg_orig")) <= 1
    /\ \A k \in CallsOf("ffmpeg_orig") : calls[k].q = quality_list[1]
    /\ (BetweenPoints /\ i < Len(quality_list)) => Exists(fs, origy4m(pid))

\* C16, amended: the transcode of the source image is invoked once for
\* each quality point, as the first invocation of that point; inside the
\* point its output exists; the point removes it at its end, so that it is
\* absent between two points and after the last; a run that returns has
\* invoked it as many times as the sweep has points.
C16_ReferencePerPoint ==
    /\ \A k \in CallsOf("ffmpeg_orig") :
          /\ Cardinality(CallsAt("ffmpeg_orig", calls[k].q)) = 1
          /\ \A m \in 1..(k - 1) : calls[m].q # calls[k].q
    /\ PastConvertffOrig =>
          /\ \E k \in CallsAt("ffmpeg_orig", quality) : calls[k].rv = 0
          /\ Exists(fs, origy4m(pid))
    /\ BetweenPoints => ~Exists(fs, origy4m(pid))
    /\ (RunOver /\ status = "returned") =>
          /\ Cardinality(CallsOf("ffmpeg_orig")) = Len(quality_list)
          /\ quality_list # <<>> => ~Exists(fs, origy4m(pid))

\* A run over the three quality points 10, 40, 70 returned: three
\* transcodes of the source image, and none of their outputs left.
C16_Witness ==
    /\ RunOver /\ status = "returned"
    /\ quality_list = <<10, 40, 70>>
    /\ Cardinality(CallsOf("ffmpeg_orig")) = 3
    /\ ~Exists(fs, origy4m(pid))

\* the multi-metric call or a single-metric call is next or under way
AtMetrics ==
    pc \in {"get_score", "get_butteraugli", "get_dssim", "get_ssimulacra"}

\* C17 as claimed: when the original has no alpha channel, at the metric
\* calls of every quality point the decoded-side reference-format file is
\* the transcode of the image with its alpha channel taken off, the image
\* the three single-metric calls are given, whatever the decode extension.
C17_MetricsOnSameImage ==
    (AtMetrics /\ ~hasAlpha) =>
        /\ fs[target_png(pid, quality, decode_extension)]
              = Data("decoded_noalpha")
        /\ fs[target_y4m(pid, quality)]
              = y4m_of(fs[target_png(pid, quality, decode_extension)])

MetricCmds == {"vmaf", "butteraugli_main", "dssim", "ssimulacra_main"}
\* the run is inside a quality point, past the alpha-removal step
PastAlphaStep ==
    pc \in {"convertff_dec", "get_score", "get_butteraugli", "get_dssim",
            "get_ssimulacra", "lossy_row"}

\* C18: in every quality point the alpha-removal conversion is invoked
\* exactly when the source image has no alpha channel: never when it has
\* one, and once, on the decoded portable image, when it has none; it
\* comes after the detection on the source image of that point and before
\* every metric tool of that point; and the portable image the metric
\* tools are given is the decoded image, with its alpha channel taken off
\* or as decoded, never one with a channel added.
C18_AlphaStripIffNoAlpha ==
    /\ \A k \in CallsOf("convert_alpha_off") :
          /\ ~hasAlpha
          /\ k > 1 /\ calls[k - 1].cmd = "identify_channels"
          /\ calls[k - 1].q = calls[k].q /\ calls[k - 1].rv = 0
          /\ \A m \in 1..k : ~(calls[m].cmd \in MetricCmds
                               /\ calls[m].q = calls[k].q)
    /\ PastAlphaStep =>
          /\ Cardinality(CallsAt("convert_alpha_off", quality))
                = (IF hasAlpha THEN 0 ELSE 1)
          /\ \A k \in CallsAt("convert_alpha_off", quality) : calls[k].rv = 0
          /\ fs[target_png(pid, quality, decode_extension)]
                = (IF ~hasAlpha THEN Data("decoded_noalpha")
                   ELSE IF decode_extension # "png" THEN Data("decoded_png")
                   ELSE Data("decoded"))

\* The second quality point of a run on an image without alpha channel is
\* at its last metric tool: the alpha channel was taken off in both points.
C18_Witness ==
    /\ pc = "get_ssimulacra" /\ i = 1 /\ ~hasAlpha
    /\ Cardinality(CallsOf("convert_alpha_off")) = 2
    /\ decode_extension # "png"

\* C19: a failing invocation is the last one of the run, so that the
\* repetitions after it are not made and no command is ever executed more
\* often than its count; in a run that got past the reading of the recipe
\* and returned, the lossless encode command and the lossless decode
\* command were each executed exactly 5 times, and the lossy encode command
\* and the lossy decode command exactly once for each quality point.
C19_RepetitionCounts ==
    /\ \A k \in 1..Len(calls) :
          calls[k].rv # 0 => k = Len(calls) /\ status = "exited"
    /\ Cardinality(CallsOf("lossless_cmd")) <= 5
    /\ Cardinality(CallsOf("lossless_decode_cmd")) <= 5
    /\ CallsOf("lossless_decode_cmd") # {} =>
          Cardinality(CallsOf("lossless_cmd")) = 5
    /\ \A k \in 1..Len(calls) :
          calls[k].cmd \in {"encode_cmd", "decode_cmd"} =>
              Cardinality(CallsAt(calls[k].cmd, calls[k].q)) = 1
    /\ (RunOver /\ status = "returned" /\ calls # <<>>) =>
          /\ Cardinality(CallsOf("lossless_cmd")) = 5
          /\ Cardinality(CallsOf("lossless_decode_cmd")) = 5
          /\ \A k \in 1..Len(quality_list) :
                /\ Cardinality(CallsAt("encode_cmd", quality_list[k])) = 1
                /\ Cardinality(CallsAt("decode_cmd", quality_list[k])) = 1

\* A run over three quality points returned, every invocation having
\* exited zero: five lossless encodes, five lossless decodes, three lossy
\* encodes and three lossy decodes.
C19_Witness ==
    /\ RunOver /\ status = "returned" /\ AllZero
    /\ Len(quality_list) = 3
    /\ Cardinality(CallsOf("lossless_cmd")) = 5
    /\ Cardinality(CallsOf("lossless_decode_cmd")) = 5
    /\ Cardinality(CallsOf("encode_cmd")) = 3
    /\ Cardinality(CallsOf("decode_cmd")) = 3

(***************************************************************************)
(* Termination of main.  The workers are processes the operating system    *)
(* schedules and the pool's handler threads run for as long as main does:  *)
(* whatever step of main, of a worker or of the pool can be taken is       *)
(* eventually taken.                                                       *)
(***************************************************************************)
SpecPoolFair == SpecPool /\ WF_vars(NextPool)

\* C20 as claimed: main eventually returns or raises, whether every Job
\* succeeds or a worker ends on a failing external tool.
C20_MainTerminates == <>(main_pc \in {"returned", "raised"})

(***************************************************************************)
(* Runs of one Job after a run that is over (specification Spec).          *)
(***************************************************************************)
\* lines 357-384: the recipe gets past the reading of its fields
RecipeAccepted == parse_outcome(format_recipe) = "ok"

\* the call that follows a run that is over starts from the files it left
EnteredOnFilesLeft == (pc = "idle" /\ pc' = "guard") => (fs0' = fs /\ fs' = fs)

\* a run entered on a lossy result file that is not empty is skipped, and
\* leaves every file as it was
SkippedOnFilesLeft ==
    (run > 1 /\ RunOver /\ NonEmptyFile(fs0, result_lossy)) =>
        (status = "skipped" /\ calls = <<>> /\ fs = fs0)

\* C21 as claimed: after any run in which every external tool exited zero
\* the lossy result file is not empty; the next run starts from the files of
\* that run, so it is skipped and the files after two runs are those after
\* the first.
C21_IdempotentAnyRun ==
    [][/\ EnteredOnFilesLeft
       /\ ((RunOver /\ AllZero) => NonEmptyFile(fs, result_lossy))'
       /\ SkippedOnFilesLeft']_vars

\* C21, amended: the same of a Job whose recipe is accepted (a rejected
\* recipe ends every run before any file is opened: no result file, no skip,
\* and the files are those of before as well).
C21_IdempotentAcceptedRecipe ==
    [][/\ EnteredOnFilesLeft
       /\ ((RunOver /\ AllZero /\ RecipeAccepted) =>
              NonEmptyFile(fs, result_lossy))'
       /\ SkippedOnFilesLeft'
       /\ ((RunOver /\ ~RecipeAccepted) =>
              (calls = <<>> /\ fs = fs0 /\ ~Exists(fs, result_lossy)))']_vars

\* a second run skipped on the files of a first one that wrote both rows of
\* its sweep
C21_Witness ==
    /\ run = 2
    /\ RunOver
    /\ status = "skipped"
    /\ fs = fs0
    /\ Exists(fs, result_lossless)
    /\ Len(make_quality_list(format_recipe)) = 2
    /\ Qualities(fs, result_lossy) = make_quality_list(format_recipe)
====
